---- MODULE Spec2Model ----
(***************************************************************************)
(* A model of the ETSI specification resolver                              *)
(* (src/skills/standards/etsi-spec/scripts/get_etsi_spec.py).              *)
(*                                                                         *)
(* Text is modelled as sequences of one-character strings, so that the     *)
(* string operations of the script (strip, upper, startswith, replace,     *)
(* slicing, the regular expressions, f-string concatenation) are computed  *)
(* character by character as the script computes them.                     *)
(***************************************************************************)
EXTENDS Integers, Sequences, FiniteSets, TLC

VARIABLES
    argv,           \* sys.argv[1:], the command-line arguments
    raw,            \* spec_input = sys.argv[1], the identifier main parses
    pc,             \* position of main(): parse, resolve, enumerate, select, locate, extract, done
    spec_info,      \* the dict returned by parse_spec_number, or NoInfo
    rest,           \* parse_spec_number's spec_input when the digit patterns are tried
    directory_url,  \* the value returned by get_spec_directory_url
    range_suffix,   \* get_spec_directory_url's local range_suffix (<<>> while unset)
    version_dirs,   \* the list returned by get_version_directories
    latest,         \* version_dirs[0] as unpacked by main
    latest_shown,   \* format_version(latest_num) as main prints it
    cand,           \* index in possible_filenames of the next probe of get_pdf_url
    pdf_url,        \* the value returned by get_pdf_url
    artifact,       \* the document the artifact GET delivered (NoPdf before)
    metadata,       \* the dict returned by extract_pdf_metadata
    requests,       \* every remote request issued so far, in order, with its outcome
    page,           \* the <a> hrefs, in page order, read by the stage that ran last
    outcome,        \* how the query ended ("none" while it runs)
    handler,        \* the except clause of main that ran ("none" when none did)
    exit_code,      \* the process's exit status (-1 while it runs)
    received,       \* what the remote side did to each request of the query, in order
    finished        \* the queries run before this one, each with what it received and how it ended

vars == <<argv, raw, pc, spec_info, rest, directory_url, range_suffix, version_dirs,
          latest, latest_shown, cand, pdf_url, artifact, metadata, requests, page,
          outcome, handler, exit_code, received, finished>>

-----------------------------------------------------------------------------
(* Characters and the string primitives of Python the script relies on.    *)

Digits == {"0", "1", "2", "3", "4", "5", "6", "7", "8", "9"}

DigitSeq == <<"0", "1", "2", "3", "4", "5", "6", "7", "8", "9">>

\* str.strip() and the regular expressions' \s: the whitespace characters
Whitespace == {" ", "\t", "\n"}

LowerLetters == <<"a", "b", "c", "d", "e", "f", "g", "h", "i", "j", "k", "l", "m",
                  "n", "o", "p", "q", "r", "s", "t", "u", "v", "w", "x", "y", "z">>

UpperLetters == <<"A", "B", "C", "D", "E", "F", "G", "H", "I", "J", "K", "L", "M",
                  "N", "O", "P", "Q", "R", "S", "T", "U", "V", "W", "X", "Y", "Z">>

UpperChar(c) ==
    IF \E i \in 1..Len(LowerLetters) : LowerLetters[i] = c
    THEN UpperLetters[CHOOSE i \in 1..Len(LowerLetters) : LowerLetters[i] = c]
    ELSE c

LowerChar(c) ==
    IF \E i \in 1..Len(UpperLetters) : UpperLetters[i] = c
    THEN LowerLetters[CHOOSE i \in 1..Len(UpperLetters) : UpperLetters[i] = c]
    ELSE c

\* str.upper()
Upper(s) == [i \in 1..Len(s) |-> UpperChar(s[i])]

\* str.lower()
Lower(s) == [i \in 1..Len(s) |-> LowerChar(s[i])]

\* str.lstrip()
RECURSIVE LStrip(_)
LStrip(s) ==
    IF s # <<>> /\ Head(s) \in Whitespace THEN LStrip(Tail(s)) ELSE s

\* str.rstrip()
RECURSIVE RStripWs(_)
RStripWs(s) ==
    IF s # <<>> /\ s[Len(s)] \in Whitespace
    THEN RStripWs(SubSeq(s, 1, Len(s) - 1))
    ELSE s

\* str.strip()
Strip(s) == RStripWs(LStrip(s))

\* str.rstrip("/")
RECURSIVE RStripSlash(_)
RStripSlash(s) ==
    IF s # <<>> /\ s[Len(s)] = "/"
    THEN RStripSlash(SubSeq(s, 1, Len(s) - 1))
    ELSE s

\* str.startswith(p)
StartsWith(s, p) == Len(s) >= Len(p) /\ SubSeq(s, 1, Len(p)) = p

\* the operator "p in s" on strings
Contains(s, p) ==
    \E i \in 1..(Len(s) - Len(p) + 1) : SubSeq(s, i, i + Len(p) - 1) = p

\* str.replace(old, ""): every non-overlapping occurrence, from the left
RECURSIVE RemoveAll(_, _)
RemoveAll(s, old) ==
    IF s = <<>> THEN <<>>
    ELSE IF StartsWith(s, old) THEN RemoveAll(SubSeq(s, Len(old) + 1, Len(s)), old)
    ELSE <<Head(s)>> \o RemoveAll(Tail(s), old)

AllDigits(s) == \A i \in 1..Len(s) : s[i] \in Digits

DigitVal(c) == (CHOOSE i \in 1..10 : DigitSeq[i] = c) - 1

\* int() of a string of decimal digits
RECURSIVE ToInt(_)
ToInt(s) ==
    IF s = <<>> THEN 0
    ELSE 10 * ToInt(SubSeq(s, 1, Len(s) - 1)) + DigitVal(s[Len(s)])

-----------------------------------------------------------------------------
(* parse_spec_number                                                       *)

ETSI_ == <<"E", "T", "S", "I", " ">>

doc_types == << <<"E", "N">>, <<"E", "S">>, <<"E", "G">>, <<"T", "S">>, <<"T", "R">>,
                <<"S", "R">>, <<"G", "S">>, <<"G", "R">>, <<"P", "A", "S">> >>

\* a variant of DefaultDocType: the first code of the list as the default
DefaultDocTypeFirst == <<"E", "N">>

DefaultDocType == <<"T", "S">>

NoPart == <<"None">>

NoMatch == <<"NoMatch">>

NoInfo == [doc_type |-> <<>>, prefix |-> <<>>, number |-> <<>>, part |-> NoPart]

\* a variant of StripDocType: only the bare code is looked for
StripDocTypeBareOnly(s) ==
    LET hits == {i \in 1..Len(doc_types) : StartsWith(s, doc_types[i])}
    IN  IF hits = {} THEN [doc_type |-> <<"T", "S">>, text |-> s]
        ELSE LET i == CHOOSE j \in hits : \A k \in hits : j <= k
             IN  [doc_type |-> doc_types[i],
                  text |-> Strip(SubSeq(s, Len(doc_types[i]) + 1, Len(s)))]

\* the for loop over doc_types: the first code, in list order, for which the
\* "ETSI "-prefixed test or the bare test holds; the code is consumed
StripDocType(s) ==
    LET hits == {i \in 1..Len(doc_types) :
                    StartsWith(s, ETSI_ \o doc_types[i]) \/ StartsWith(s, doc_types[i])}
    IN  IF hits = {} THEN [doc_type |-> DefaultDocType, text |-> s]
        ELSE LET i  == CHOOSE j \in hits : \A k \in hits : j <= k
                 dt == doc_types[i]
             IN  IF StartsWith(s, ETSI_ \o dt)
                 THEN [doc_type |-> dt, text |-> Strip(RemoveAll(s, ETSI_ \o dt))]
                 ELSE [doc_type |-> dt, text |-> Strip(SubSeq(s, Len(dt) + 1, Len(s)))]

\* re.search(r"-(\d+)$", s): the positions of a "-" followed by digits only up
\* to the end of the text (the text is stripped, so $ is its end)
PartPositions(s) ==
    {i \in 1..(Len(s) - 1) : s[i] = "-" /\ AllDigits(SubSeq(s, i + 1, Len(s)))}

\* a variant of StripPart: the part is taken with its hyphen
StripPartWithHyphen(s) ==
    IF PartPositions(s) = {} THEN [part |-> NoPart, text |-> s]
    ELSE LET i == CHOOSE j \in PartPositions(s) : \A k \in PartPositions(s) : j <= k
         IN  [part |-> SubSeq(s, i, Len(s)),
              text |-> Strip(SubSeq(s, 1, Len(s) - (Len(s) - i + 1)))]

StripPart(s) ==
    IF PartPositions(s) = {} THEN [part |-> NoPart, text |-> s]
    ELSE LET i == CHOOSE j \in PartPositions(s) : \A k \in PartPositions(s) : j <= k
         IN  [part |-> SubSeq(s, i + 1, Len(s)),
              text |-> Strip(SubSeq(s, 1, Len(s) - (Len(s) - i + 1)))]

\* the length of the run of whitespace that starts at position i of s
RECURSIVE WsRun(_, _)
WsRun(s, i) ==
    IF i <= Len(s) /\ s[i] \in Whitespace THEN 1 + WsRun(s, i + 1) ELSE 0

\* a variant of MatchGroups: the pattern has to match the whole of s
MatchGroupsWhole(s, n, sep) ==
    IF Len(s) < n \/ ~AllDigits(SubSeq(s, 1, n)) THEN NoMatch
    ELSE LET w  == IF sep THEN WsRun(s, n + 1) ELSE 0
             st == n + w + 1
         IN  IF sep /\ w = 0 THEN NoMatch
             ELSE IF Len(s) # st + 2 \/ ~AllDigits(SubSeq(s, st, st + 2)) THEN NoMatch
             ELSE <<SubSeq(s, 1, n), SubSeq(s, st, st + 2)>>

\* re.match anchored at the start of s: n digits, then (when sep) \s+, then three
\* digits; the two groups, or NoMatch. What follows the groups is not looked at.
MatchGroups(s, n, sep) ==
    IF Len(s) < n \/ ~AllDigits(SubSeq(s, 1, n)) THEN NoMatch
    ELSE LET w  == IF sep THEN WsRun(s, n + 1) ELSE 0
             st == n + w + 1
         IN  IF sep /\ w = 0 THEN NoMatch
             ELSE IF Len(s) < st + 2 \/ ~AllDigits(SubSeq(s, st, st + 2)) THEN NoMatch
             ELSE <<SubSeq(s, 1, n), SubSeq(s, st, st + 2)>>

\* a variant of DigitGroups: the two-digit-prefix pattern is left out
DigitGroupsNoTwoDigit(s) ==
    IF MatchGroups(s, 3, TRUE) # NoMatch THEN MatchGroups(s, 3, TRUE)
    ELSE IF MatchGroups(s, 3, FALSE) # NoMatch THEN MatchGroups(s, 3, FALSE)
    ELSE NoMatch

\* the three patterns in the order the script tries them; the first match wins
DigitGroups(s) ==
    IF MatchGroups(s, 3, TRUE) # NoMatch THEN MatchGroups(s, 3, TRUE)
    ELSE IF MatchGroups(s, 3, FALSE) # NoMatch THEN MatchGroups(s, 3, FALSE)
    ELSE IF MatchGroups(s, 2, TRUE) # NoMatch THEN MatchGroups(s, 2, TRUE)
    ELSE NoMatch

\* the text the digit patterns are tried on
RestOf(input) == StripPart(StripDocType(Strip(Upper(input))).text).text

\* parse_spec_number: the dict, or NoInfo when ValueError is raised
parse_spec_number(input) ==
    LET d == StripDocType(Strip(Upper(input)))
        p == StripPart(d.text)
        g == DigitGroups(p.text)
    IN  IF g = NoMatch THEN NoInfo
        ELSE [doc_type |-> d.doc_type, prefix |-> g[1], number |-> g[2], part |-> p.part]

-----------------------------------------------------------------------------
(* Remote responses. A request either raises (timeout, connection failure) *)
(* or yields a response with a status code and, for a listing, the href of *)
(* each <a> element in page order.                                         *)

SeqsUpTo(S, n) == UNION {[1..k -> S] : k \in 0..n}

Raised == [kind |-> "exception", status |-> 0, hrefs |-> <<>>]

Response(st, hs) == [kind |-> "response", status |-> st, hrefs |-> hs]

\* soup.find_all("a") in get_spec_directory_url: the listing is parsed only
\* when the request returned with status 200
ListingPage(resp) ==
    IF resp.kind = "response" /\ resp.status = 200 THEN resp.hrefs ELSE <<>>

\* soup.find_all("a") in get_version_directories: the page is parsed when the
\* request returned and neither the 404 test nor raise_for_status ended the call
DirectoryPage(resp) ==
    IF resp.kind = "response" /\ resp.status < 400 THEN resp.hrefs ELSE <<>>

LogEntry(m, u, resp) == [method |-> m, url |-> u, kind |-> resp.kind, status |-> resp.status]

-----------------------------------------------------------------------------
(* get_spec_directory_url                                                  *)

DeliverEtsi == <<"h", "t", "t", "p", "s", ":", "/", "/", "w", "w", "w", ".", "e", "t",
                 "s", "i", ".", "o", "r", "g", "/", "d", "e", "l", "i", "v", "e", "r",
                 "/", "e", "t", "s", "i", "_">>

\* full_spec: prefix+number, followed by -part when there is a part
full_spec(info) ==
    IF info.part # NoPart /\ info.part # <<>>
    THEN info.prefix \o info.number \o <<"-">> \o info.part
    ELSE info.prefix \o info.number

base_url(info) == DeliverEtsi \o Lower(info.doc_type) \o <<"/">>

\* the if/elif chain over dir_spec_num
RangeSuffix(n) ==
    IF n < 100 THEN <<"0", "0", "_", "0", "9", "9">>
    ELSE IF n < 200 THEN <<"1", "0", "0", "_", "1", "9", "9">>
    ELSE IF n < 300 THEN <<"2", "0", "0", "_", "2", "9", "9">>
    ELSE IF n < 400 THEN <<"3", "0", "0", "_", "3", "9", "9">>
    ELSE IF n < 500 THEN <<"4", "0", "0", "_", "4", "9", "9">>
    ELSE IF n < 600 THEN <<"5", "0", "0", "_", "5", "9", "9">>
    ELSE IF n < 700 THEN <<"6", "0", "0", "_", "6", "9", "9">>
    ELSE IF n < 800 THEN <<"7", "0", "0", "_", "7", "9", "9">>
    ELSE IF n < 900 THEN <<"8", "0", "0", "_", "8", "9", "9">>
    ELSE <<"9", "0", "0", "_", "9", "9", "9">>

\* a variant of DirSpecNum: the digits of the part are counted in
DirSpecNumWithPart(info) ==
    IF info.part # NoPart /\ info.part # <<>>
    THEN ToInt(info.prefix \o info.number \o info.part)
    ELSE ToInt(info.prefix \o info.number)

\* dir_spec_num = int(f"{prefix}{number}"), with or without a part
DirSpecNum(info) == ToInt(info.prefix \o info.number)

\* the link test of the primary strategy
IsSpecDirLink(href, info) ==
    Contains(href, full_spec(info)) /\ Contains(href, <<"d", "i", "r">>)

\* a variant of PrimaryLookup: the last matching link is taken
PrimaryLookupLast(info, resp) ==
    IF resp.kind = "exception" THEN [result |-> "exception", url |-> <<>>]
    ELSE IF resp.status # 200 THEN [result |-> "none", url |-> <<>>]
    ELSE LET hits == {i \in 1..Len(resp.hrefs) : IsSpecDirLink(resp.hrefs[i], info)}
         IN  IF hits = {} THEN [result |-> "none", url |-> <<>>]
             ELSE LET i == CHOOSE j \in hits : \A k \in hits : j >= k
                  IN  [result |-> "found",
                       url |-> base_url(info) \o RStripSlash(resp.hrefs[i])]

\* the body of the try block: "found" with the url of the first matching
\* link, "none" when the loop ends without one or the status is not 200,
\* "exception" when the request raises
PrimaryLookup(info, resp) ==
    IF resp.kind = "exception" THEN [result |-> "exception", url |-> <<>>]
    ELSE IF resp.status # 200 THEN [result |-> "none", url |-> <<>>]
    ELSE LET hits == {i \in 1..Len(resp.hrefs) : IsSpecDirLink(resp.hrefs[i], info)}
         IN  IF hits = {} THEN [result |-> "none", url |-> <<>>]
             ELSE LET i == CHOOSE j \in hits : \A k \in hits : j <= k
                  IN  [result |-> "found",
                       url |-> base_url(info) \o RStripSlash(resp.hrefs[i])]

\* a variant of ListingExceptionCaught: the try block without its except clause
ListingExceptionEscapes == FALSE

\* except Exception: pass -- whether an exception of the try block is swallowed
ListingExceptionCaught == TRUE

FallbackUrl(info) ==
    DeliverEtsi \o Lower(info.doc_type) \o <<"/">> \o info.prefix
        \o RangeSuffix(DirSpecNum(info)) \o <<"/">> \o full_spec(info) \o <<"/">>

\* get_spec_directory_url: raised tells whether an exception leaves the function
get_spec_directory_url(info, resp) ==
    LET p == PrimaryLookup(info, resp)
    IN  IF p.result = "found"
        THEN [raised |-> FALSE, url |-> p.url, range_suffix |-> <<>>]
        ELSE IF p.result = "exception" /\ ~ListingExceptionCaught
        THEN [raised |-> TRUE, url |-> <<>>, range_suffix |-> <<>>]
        ELSE [raised |-> FALSE, url |-> FallbackUrl(info),
              range_suffix |-> RangeSuffix(DirSpecNum(info))]

-----------------------------------------------------------------------------
(* get_version_directories                                                 *)

\* the tuple (version_dir, version_num, release_code) appended for a match:
\* version_dir.split("_") gives the version number and, when present, the release
VersionTuple(version_dir) ==
    IF Len(version_dir) > 8
    THEN <<version_dir, SubSeq(version_dir, 1, 8), SubSeq(version_dir, 10, 11)>>
    ELSE <<version_dir, version_dir, <<"0", "0">> >>

\* re.search(r"(\d{2}\.\d{2}\.\d{2}(?:_\d{2})?", href): compiling the pattern
\* raises re.error (missing ), unterminated subpattern), whatever the href
VersionSearch(h) == [raised |-> TRUE, match |-> NoMatch]

\* the for loop over the links: one tuple per href that matches, in page
\* order; raised when re.search raises, which ends the loop
RECURSIVE CollectVersions(_)
CollectVersions(hrefs) ==
    IF hrefs = <<>> THEN [raised |-> FALSE, list |-> <<>>]
    ELSE LET s == VersionSearch(Head(hrefs))
         IN  IF s.raised THEN [raised |-> TRUE, list |-> <<>>]
             ELSE LET more == CollectVersions(Tail(hrefs))
                  IN  IF more.raised \/ s.match = NoMatch THEN more
                      ELSE [more EXCEPT !.list = <<VersionTuple(s.match)>> \o more.list]

\* the code point of the characters version numbers are made of
CharCode(c) ==
    IF c \in Digits THEN 48 + DigitVal(c)
    ELSE IF c = "." THEN 46
    ELSE IF c = "/" THEN 47
    ELSE IF c = "_" THEN 95
    ELSE IF c = "-" THEN 45
    ELSE 0

\* Python's < on strings: lexicographic by code point, a proper prefix is smaller
RECURSIVE StrLess(_, _)
StrLess(a, b) ==
    IF b = <<>> THEN FALSE
    ELSE IF a = <<>> THEN TRUE
    ELSE IF CharCode(Head(a)) # CharCode(Head(b)) THEN CharCode(Head(a)) < CharCode(Head(b))
    ELSE StrLess(Tail(a), Tail(b))

\* the order sort(key=lambda x: x[1], reverse=True) puts e before an entry f
\* that was ahead of it: only when e's key is strictly greater (the sort is stable)
GoesBefore(e, f) == StrLess(f[2], e[2])

\* e inserted into a sorted list behind every entry it does not go before
RECURSIVE InsertSorted(_, _)
InsertSorted(sorted, e) ==
    IF sorted = <<>> THEN <<e>>
    ELSE IF GoesBefore(e, Head(sorted)) THEN <<e>> \o sorted
    ELSE <<Head(sorted)>> \o InsertSorted(Tail(sorted), e)

\* list.sort(key=lambda x: x[1], reverse=True)
RECURSIVE SortVersions(_)
SortVersions(l) ==
    IF l = <<>> THEN <<>>
    ELSE InsertSorted(SortVersions(SubSeq(l, 1, Len(l) - 1)), l[Len(l)])

\* a variant of RaisesForStatus: the call to raise_for_status left out
RaisesForStatusNever(status) == FALSE

\* response.raise_for_status(): HTTPError for a 4xx or 5xx status
RaisesForStatus(status) == status >= 400 /\ status < 600

\* a variant of IsNotFound: every error status gives the empty list
IsNotFoundAnyError(status) == status >= 400

\* the status get_version_directories answers with an empty list
IsNotFound(status) == status = 404

\* get_version_directories. raised is "none", "RequestException" (the fetch,
\* raise_for_status) or "Exception" (the re.error of the loop)
get_version_directories(resp) ==
    IF resp.kind = "exception" THEN [raised |-> "RequestException", list |-> <<>>]
    ELSE IF IsNotFound(resp.status) THEN [raised |-> "none", list |-> <<>>]
    ELSE IF RaisesForStatus(resp.status)
    THEN [raised |-> "RequestException", list |-> <<>>]
    ELSE LET found == CollectVersions(resp.hrefs)
         IN  IF found.raised THEN [raised |-> "Exception", list |-> <<>>]
             ELSE [raised |-> "none", list |-> SortVersions(found.list)]

-----------------------------------------------------------------------------
(* get_pdf_url                                                             *)

\* version_dir.split("_")[0].replace(".", "")
VersionNoDots(version_dir) ==
    LET us == {i \in 1..Len(version_dir) : version_dir[i] = "_"}
        num == IF us = {} THEN version_dir
               ELSE SubSeq(version_dir, 1, (CHOOSE j \in us : \A k \in us : j <= k) - 1)
    IN  RemoveAll(num, <<".">>)

version_url(dir_url, version_dir) == RStripSlash(dir_url) \o <<"/">> \o version_dir \o <<"/">>

\* possible_filenames, in list order
possible_filenames(info, version_dir) ==
    LET dt == Lower(info.doc_type)
        fs == full_spec(info)
        v  == <<"v">> \o VersionNoDots(version_dir)
    IN  << dt \o <<"_">> \o fs \o v \o <<"p", ".", "p", "d", "f">>,
           dt \o <<"_">> \o fs \o v \o <<".", "p", "d", "f">>,
           fs \o v \o <<".", "p", "d", "f">>,
           fs \o v \o <<"p", ".", "p", "d", "f">> >>

\* the url of the k-th probe
ProbeUrl(dir_url, version_dir, info, k) ==
    version_url(dir_url, version_dir) \o possible_filenames(info, version_dir)[k]

\* a variant of ProbeSucceeds: every status but 404 counts as found
ProbeSucceedsNot404(status) == status # 404

\* test_response.status_code == 200
ProbeSucceeds(status) == status = 200

\* a variant of ProbeRaises: the probe wrapped in a try block that swallows
ProbeRaisesNever(resp) == FALSE

\* requests.head(pdf_url, timeout=10) raising: nothing in get_pdf_url catches it
ProbeRaises(resp) == resp.kind = "exception"

\* a variant of NextCandidate: the same file name is tried again
NextCandidateSame(k) == k

\* for filename in possible_filenames: the candidate after the k-th
NextCandidate(k) == k + 1

-----------------------------------------------------------------------------
(* extract_pdf_metadata                                                    *)

\* a key the metadata dict does not hold
Unset == <<"None">>

\* for line in lines[:20]
TitleScanLines == 20

\* len(line) > 20
MinTitleLen == 20

\* the characters \w matches
WordChars ==
    Digits \cup {"_"} \cup {LowerLetters[i] : i \in 1..Len(LowerLetters)}
        \cup {UpperLetters[i] : i \in 1..Len(UpperLetters)}

\* text.split("\n")
RECURSIVE SplitLines(_)
SplitLines(t) ==
    LET nl == {i \in 1..Len(t) : t[i] = "\n"}
    IN  IF nl = {} THEN <<t>>
        ELSE LET i == CHOOSE j \in nl : \A k \in nl : j <= k
             IN  <<SubSeq(t, 1, i - 1)>> \o SplitLines(SubSeq(t, i + 1, Len(t)))

\* re.match(r"^[^\w\s]+$", line)
OnlySpecial(line) ==
    line # <<>> /\ \A i \in 1..Len(line) : line[i] \notin (WordChars \cup Whitespace)

\* the test a stripped line passes to become the title
QualifiesAsTitle(line) ==
    line # <<>> /\ Len(line) > MinTitleLen /\ ~OnlySpecial(line)

\* a variant of ScanTitle: every line of the page is scanned
ScanTitleAllLines(text) ==
    LET lines == SplitLines(text)
        hits  == {i \in 1..Len(lines) : QualifiesAsTitle(Strip(lines[i]))}
    IN  IF hits = {} THEN Unset
        ELSE Strip(lines[CHOOSE j \in hits : \A k \in hits : j <= k])

\* the scan of the first page's text: the title it finds, or Unset
ScanTitle(text) ==
    LET lines == SplitLines(text)
        n     == IF Len(lines) < TitleScanLines THEN Len(lines) ELSE TitleScanLines
        hits  == {i \in 1..n : QualifiesAsTitle(Strip(lines[i]))}
    IN  IF hits = {} THEN Unset
        ELSE Strip(lines[CHOOSE j \in hits : \A k \in hits : j <= k])

\* whether D: and eight digits start at position i
DateAt(s, i) ==
    /\ i + 9 <= Len(s)
    /\ s[i] = "D" /\ s[i + 1] = ":"
    /\ AllDigits(SubSeq(s, i + 2, i + 9))

\* a variant of PublicationDate: the pattern is tried at the start of the text only
PublicationDateAtStart(s) ==
    IF DateAt(s, 1)
    THEN SubSeq(s, 3, 6) \o <<"-">> \o SubSeq(s, 7, 8) \o <<"-">> \o SubSeq(s, 9, 10)
    ELSE Unset

\* re.search(r"D:(\d{4})(\d{2})(\d{2})", creation_date) and the f-string
\* built from its groups; Unset when there is no match
PublicationDate(s) ==
    LET hits == {i \in 1..Len(s) : DateAt(s, i)}
    IN  IF hits = {} THEN Unset
        ELSE LET i == CHOOSE j \in hits : \A k \in hits : j <= k
             IN  SubSeq(s, i + 2, i + 5) \o <<"-">> \o SubSeq(s, i + 6, i + 7)
                     \o <<"-">> \o SubSeq(s, i + 8, i + 9)

NoMetadata == [title |-> Unset, creation_date |-> Unset, publication_date |-> Unset]

\* bool(x) of a dict value that is a string or missing
Truthy(x) == x # Unset /\ x # <<>>

\* extract_pdf_metadata on the response to the artifact GET. raised is "none",
\* "RequestException" (the fetch) or "Exception" (PdfReader on a document it
\* cannot read, reader.pages[0] of a document without pages, extract_text
\* failing: the function has no try block)
extract_pdf_metadata(resp) ==
    IF resp.kind = "exception" \/ RaisesForStatus(resp.status)
    THEN [raised |-> "RequestException", metadata |-> NoMetadata]
    ELSE LET pdf == resp.pdf
             m0  == IF pdf.info
                    THEN [NoMetadata EXCEPT !.title = pdf.title,
                                            !.creation_date = pdf.creation_date]
                    ELSE NoMetadata
             scan == ~Truthy(m0.title)
             broken == \/ ~pdf.parsable
                       \/ scan /\ pdf.pages = <<>>
                       \/ scan /\ pdf.pages # <<>> /\ ~pdf.pages[1].extractable
         IN  IF broken
             THEN [raised |-> "Exception", metadata |-> NoMetadata]
             ELSE LET found == IF scan THEN ScanTitle(pdf.pages[1].text) ELSE Unset
                      m1 == IF scan /\ found # Unset
                            THEN [m0 EXCEPT !.title = found] ELSE m0
                      m2 == IF Truthy(m1.creation_date)
                            THEN [m1 EXCEPT !.publication_date =
                                                PublicationDate(m1.creation_date)]
                            ELSE m1
                  IN  [raised |-> "none", metadata |-> m2]

-----------------------------------------------------------------------------
(* format_version                                                          *)

\* str.split("."): the pieces between the dots
RECURSIVE SplitDots(_)
SplitDots(s) ==
    LET dots == {i \in 1..Len(s) : s[i] = "."}
    IN  IF dots = {} THEN <<s>>
        ELSE LET i == CHOOSE j \in dots : \A k \in dots : j <= k
             IN  <<SubSeq(s, 1, i - 1)>> \o SplitDots(SubSeq(s, i + 1, Len(s)))

\* str() of a natural number
RECURSIVE IntToStr(_)
IntToStr(n) ==
    IF n < 10 THEN <<DigitSeq[n + 1]>>
    ELSE IntToStr(n \div 10) \o <<DigitSeq[(n % 10) + 1]>>

\* a variant of format_version: the groups printed without the dots between
format_version_no_dots(version_num) ==
    LET parts == SplitDots(version_num)
    IN  IF Len(parts) >= 3
        THEN <<"V">> \o IntToStr(ToInt(parts[1])) \o IntToStr(ToInt(parts[2]))
                 \o IntToStr(ToInt(parts[3]))
        ELSE version_num

\* format_version
format_version(version_num) ==
    LET parts == SplitDots(version_num)
    IN  IF Len(parts) >= 3
        THEN <<"V">> \o IntToStr(ToInt(parts[1])) \o <<".">> \o IntToStr(ToInt(parts[2]))
                 \o <<".">> \o IntToStr(ToInt(parts[3]))
        ELSE version_num

-----------------------------------------------------------------------------
(* The inputs and the remote behaviours the model explores.                *)

\* most hrefs a listing page holds
MaxLinks == 3

\* most digits of a part suffix
MaxPartLen == 2

\* identifiers typed by the user, for the whole pipeline
QueryInputs ==
    { <<"1", "0", "3", "2", "2", "4">>,
      <<"E", "G", " ", "2", "0", "2", " ", "3", "9", "6", "-", "3">>,
      <<"e", "t", "s", "i", " ", "t", "r", " ", "1", "0", "3", " ", "9", "0", "7">>,
      <<"0", "0", "0", "1", "5", "0">>,
      <<"n", "o", "t", " ", "a", " ", "s", "p", "e", "c">> }

\* the hrefs a document-type listing page may hold for the identifier
ListingHrefs(info) ==
    { <<"d", "i", "r", "_">> \o full_spec(info) \o <<"/">>,
      full_spec(info) \o <<"/">>,
      <<".", ".", "/">> }

\* what the GET of the document-type listing may do
ListingResponses(info) ==
    {Raised, Response(404, <<>>), Response(500, <<>>)}
        \cup {Response(200, hs) : hs \in SeqsUpTo(ListingHrefs(info), MaxLinks)}

\* the hrefs a specification directory page may hold
VersionHrefs ==
    { <<"0", "1", ".", "0", "7", ".", "0", "1", "_", "6", "0", "/">>,
      <<"0", "1", ".", "0", "6", ".", "0", "2", "_", "3", "0", "/">>,
      <<"0", "2", ".", "0", "1", ".", "0", "1", "_", "1", "0", "/">>,
      <<".", ".", "/">> }

\* what the GET of the specification directory may do
DirectoryResponses ==
    {Raised, Response(404, <<>>), Response(500, <<>>)}
        \cup {Response(200, hs) : hs \in SeqsUpTo(VersionHrefs, MaxLinks)}

\* what a HEAD probe may do
ProbeResponses == {Raised, Response(200, <<>>), Response(404, <<>>), Response(500, <<>>)}

TitleText == <<"S", "o", "u", "n", "d", " ", "f", "i", "e", "l", "d", " ", "r", "e", "p", "r", "o", "d", "u", "c", "t", "i", "o", "n">>

RuleText == [i \in 1..22 |-> "-"]

CreationStamp == <<"D", ":", "2", "0", "2", "5", "1", "1", "2", "0", "0", "9", "3", "0", "0", "0">>

NoPdf == [parsable |-> FALSE, info |-> FALSE, title |-> <<>>, creation_date |-> <<>>,
          pages |-> <<>>]

Page(ok, text) == [extractable |-> ok, text |-> text]

\* the documents the artifact GET may deliver
PdfContents ==
    { NoPdf,
      [NoPdf EXCEPT !.parsable = TRUE],
      [NoPdf EXCEPT !.parsable = TRUE, !.pages = <<Page(FALSE, <<>>)>>],
      [NoPdf EXCEPT !.parsable = TRUE,
                    !.pages = <<Page(TRUE, <<"E", "T", "S", "I", "\n">> \o TitleText)>>],
      [NoPdf EXCEPT !.parsable = TRUE, !.info = TRUE, !.creation_date = <<"2", "0", "2", "5">>,
                    !.pages = <<Page(TRUE, RuleText)>>],
      [NoPdf EXCEPT !.parsable = TRUE, !.info = TRUE, !.title = TitleText,
                    !.creation_date = CreationStamp] }

ArtifactResponse(k, st, pdf) == [kind |-> k, status |-> st, pdf |-> pdf]

\* what the GET of the artifact may do
ArtifactResponses ==
    {ArtifactResponse("exception", 0, NoPdf), ArtifactResponse("response", 404, NoPdf),
     ArtifactResponse("response", 500, NoPdf)}
        \cup {ArtifactResponse("response", 200, pdf) : pdf \in PdfContents}

\* identifiers for the parser alone: every six-digit string over TripleDigits,
\* every documented typed form over TypedTriples, and forms outside both
TripleDigits == {"0", "1", "9"}

Triples == [1..3 -> TripleDigits]

SixDigitInputs == {p \o n : p \in Triples, n \in Triples}

TypedTriples == {<<"1", "0", "3">>, <<"2", "2", "4">>, <<"9", "0", "7">>}

PartDigits == {"3", "0"}

Parts == UNION {[1..k -> PartDigits] : k \in 1..MaxPartLen}

\* "DT PPP NNN" and "DT PPP NNN-K", bare or behind "ETSI ", upper or lower case,
\* each with the fields it is made of
TypedCases ==
    LET forms == {[input |-> lead \o doc_types[i] \o <<" ">> \o p \o <<" ">> \o n
                                \o (IF k = NoPart THEN <<>> ELSE <<"-">> \o k),
                   doc_type |-> doc_types[i], prefix |-> p, number |-> n, part |-> k] :
                    lead \in {<<>>, ETSI_}, i \in 1..Len(doc_types),
                    p \in TypedTriples, n \in TypedTriples,
                    k \in {NoPart} \cup Parts}
    IN  forms \cup {[f EXCEPT !.input = Lower(f.input)] : f \in forms}

TypedInputs == {c.input : c \in TypedCases}

OtherInputs ==
    { <<"n", "o", "t", " ", "a", " ", "s", "p", "e", "c">>,
      <<>>,
      <<"1", "2", "3", "4", "5">>,
      <<"0", "1", " ", "0", "0", "1">>,
      <<"0", "1", " ", "0", "0", "1", "-", "2">>,
      <<"1", "0", "3", "2", "2", "4", "5">>,
      <<"1", "0", "3", " ", "2", "2", "4", "5">>,
      <<"1", "0", "3", "2", "2", "4", "x">>,
      <<"1", "0", "3", "2", "2", "4", "5", "-", "3">>,
      <<"1", "0", "3", "-", "2", "2", "4">>,
      <<"T", "S">>,
      <<" ", "1", "0", "3", "2", "2", "4", " ">>,
      <<"1", "0", "3", "\t", "2", "2", "4">>,
      <<"1", "0", "3", " ", " ", "2", "2", "4">>,
      <<"P", "A", "S", " ", "0", "1", " ", "0", "0", "1", "-", "2">>,
      <<"E", "N", "T", "S", " ", "1", "0", "3", " ", "2", "2", "4">>,
      <<"E", "T", "S", "I", " ", "1", "0", "3", " ", "2", "2", "4">>,
      <<"T", "S", "1", "0", "3", "2", "2", "4">>,
      <<"t", "s", " ", "1", "0", "3", "2", "2", "4", "-", "1">>,
      <<"1", " ", "2", " ", "3">>,
      <<"1", "0", " ", "3", "2", "2", "4">>,
      <<"1", "0", "3", " ", "2", "2">>,
      <<"1", "0", "3", "4">> }

ParseInputs == SixDigitInputs \cup TypedInputs \cup OtherInputs

-----------------------------------------------------------------------------
(* main: one action per stage of the pipeline.                             *)

\* spec_input = sys.argv[1]
SpecInput(args) == args[1]

\* main has read its arguments (at least one is given) and is about to parse
StartArgs(arglists) ==
    /\ argv \in arglists
    /\ raw = SpecInput(argv)
    /\ pc = "parse"
    /\ spec_info = NoInfo
    /\ rest = <<>>
    /\ directory_url = <<>>
    /\ range_suffix = <<>>
    /\ version_dirs = <<>>
    /\ latest = <<>>
    /\ latest_shown = <<>>
    /\ cand = 1
    /\ pdf_url = <<>>
    /\ artifact = NoPdf
    /\ metadata = NoMetadata
    /\ requests = <<>>
    /\ page = <<>>
    /\ outcome = "none"
    /\ handler = "none"
    /\ exit_code = -1
    /\ received = <<>>
    /\ finished = <<>>

\* the identifier given as the one argument
Start(inputs) == StartArgs({<<i>> : i \in inputs})

Init == Start(QueryInputs)

\* a variant of ExceptClause: a bare except, which also catches the SystemExit
\* of the zero-versions branch
ExceptClauseBare(how) ==
    IF how \in {"InvalidIdentifier", "ArtifactNotFound"} THEN "ValueError"
    ELSE IF how = "TransportError" THEN "RequestException"
    ELSE IF how \in {"UnexpectedError", "SpecNotFound"} THEN "Exception"
    ELSE "none"

\* the except clause of main that catches what ends the query: the ValueError
\* of parse_spec_number and get_pdf_url, a requests.RequestException, any other
\* Exception; none for the sys.exit(1) of the zero-versions branch (SystemExit
\* is no Exception) and for a query that runs to its end
ExceptClause(how) ==
    IF how \in {"InvalidIdentifier", "ArtifactNotFound"} THEN "ValueError"
    ELSE IF how = "TransportError" THEN "RequestException"
    ELSE IF how = "UnexpectedError" THEN "Exception"
    ELSE "none"

\* a variant of Finish: the message is printed and main goes on
FinishWithoutExit(how, code) ==
    /\ pc' = pc
    /\ outcome' = how
    /\ handler' = ExceptClause(how)
    /\ exit_code' = code

\* the query ends: sys.exit(1) on a failure, falling off main otherwise
Finish(how, code) ==
    /\ pc' = "done"
    /\ outcome' = how
    /\ handler' = ExceptClause(how)
    /\ exit_code' = code

\* spec_info = parse_spec_number(spec_input); ValueError ends the query
Parse ==
    /\ pc = "parse"
    /\ rest' = RestOf(raw)
    /\ spec_info' = parse_spec_number(raw)
    /\ IF parse_spec_number(raw) = NoInfo
       THEN Finish("InvalidIdentifier", 1)
       ELSE pc' = "resolve" /\ UNCHANGED <<outcome, handler, exit_code>>
    /\ UNCHANGED <<argv, raw, directory_url, range_suffix, version_dirs, latest,
                   latest_shown, cand, pdf_url, artifact, metadata, requests, page,
                   received, finished>>

\* directory_url = get_spec_directory_url(spec_info), with the GET of the
\* listing, for the listing responses of the given set
ResolveFrom(responses) ==
    /\ pc = "resolve"
    /\ \E resp \in responses :
          LET r == get_spec_directory_url(spec_info, resp)
          IN  /\ requests' = Append(requests, LogEntry("GET", base_url(spec_info), resp))
              /\ received' = Append(received, resp)
              /\ page' = ListingPage(resp)
              /\ directory_url' = r.url
              /\ range_suffix' = r.range_suffix
              /\ IF r.raised
                 THEN Finish("TransportError", 1)
                 ELSE pc' = "enumerate" /\ UNCHANGED <<outcome, handler, exit_code>>
    /\ UNCHANGED <<argv, raw, spec_info, rest, version_dirs, latest, latest_shown, cand,
                   pdf_url, artifact, metadata,
                   finished>>

Resolve == ResolveFrom(ListingResponses(spec_info))

\* latest_dir, latest_num, release_code = version_dirs[0]
LatestEntry(l) == l[1]

\* version_dirs = get_version_directories(directory_url, spec_info) and the
\* test for an empty list, for the directory responses of the given set
EnumerateFrom(responses) ==
    /\ pc = "enumerate"
    /\ \E resp \in responses :
          LET r == get_version_directories(resp)
          IN  /\ requests' = Append(requests, LogEntry("GET", directory_url, resp))
              /\ received' = Append(received, resp)
              /\ page' = DirectoryPage(resp)
              /\ version_dirs' = r.list
              /\ IF r.raised = "RequestException" THEN Finish("TransportError", 1)
                 ELSE IF r.raised = "Exception" THEN Finish("UnexpectedError", 1)
                 ELSE IF r.list = <<>> THEN Finish("SpecNotFound", 1)
                 ELSE pc' = "select" /\ UNCHANGED <<outcome, handler, exit_code>>
    /\ UNCHANGED <<argv, raw, spec_info, rest, directory_url, range_suffix, latest,
                   latest_shown, cand, pdf_url, artifact, metadata,
                   finished>>

Enumerate == EnumerateFrom(DirectoryResponses)

\* latest_dir, latest_num, release_code = version_dirs[0] and the print of
\* format_version(latest_num)
Select ==
    /\ pc = "select"
    /\ latest' = LatestEntry(version_dirs)
    /\ latest_shown' = format_version(LatestEntry(version_dirs)[2])
    /\ pc' = "locate"
    /\ UNCHANGED <<argv, raw, spec_info, rest, directory_url, range_suffix, version_dirs,
                   cand, pdf_url, artifact, metadata, requests, page, outcome, handler,
                   exit_code,
                   received, finished>>

\* one iteration of get_pdf_url's loop over possible_filenames: the HEAD probe
\* of candidate cand; after the last candidate the loop ends and ValueError is raised
ProbeFrom(responses) ==
    /\ pc = "locate"
    /\ \E resp \in responses :
          LET url == ProbeUrl(directory_url, latest[1], spec_info, cand)
          IN  /\ requests' = Append(requests, LogEntry("HEAD", url, resp))
              /\ received' = Append(received, resp)
              /\ IF ProbeRaises(resp)
                 THEN Finish("TransportError", 1) /\ UNCHANGED <<cand, pdf_url>>
                 ELSE IF ProbeSucceeds(resp.status)
                 THEN /\ pdf_url' = url
                      /\ pc' = "extract"
                      /\ UNCHANGED <<cand, outcome, handler, exit_code>>
                 ELSE IF cand < Len(possible_filenames(spec_info, latest[1]))
                 THEN /\ cand' = NextCandidate(cand)
                      /\ UNCHANGED <<pc, pdf_url, outcome, handler, exit_code>>
                 ELSE Finish("ArtifactNotFound", 1) /\ UNCHANGED <<cand, pdf_url>>
    /\ page' = <<>>
    /\ UNCHANGED <<argv, raw, spec_info, rest, directory_url, range_suffix, version_dirs,
                   latest, latest_shown, artifact, metadata,
                   finished>>

Probe == ProbeFrom(ProbeResponses)

\* metadata = extract_pdf_metadata(pdf_url), with the GET of the artifact; the
\* except clauses of main decide how an exception ends the query; for the
\* artifact responses of the given set
ExtractFrom(responses) ==
    /\ pc = "extract"
    /\ \E resp \in responses :
          LET r == extract_pdf_metadata(resp)
          IN  /\ requests' = Append(requests,
                                    [method |-> "GET", url |-> pdf_url,
                                     kind |-> resp.kind, status |-> resp.status])
              /\ received' = Append(received, resp)
              /\ artifact' = resp.pdf
              /\ metadata' = r.metadata
              /\ IF r.raised = "RequestException" THEN Finish("TransportError", 1)
                 ELSE IF r.raised = "Exception" THEN Finish("UnexpectedError", 1)
                 ELSE Finish("Resolved", 0)
    /\ page' = <<>>
    /\ UNCHANGED <<argv, raw, spec_info, rest, directory_url, range_suffix, version_dirs,
                   latest, latest_shown, cand, pdf_url,
                   finished>>

Extract == ExtractFrom(ArtifactResponses)

Next == Parse \/ Resolve \/ Enumerate \/ Select \/ Probe \/ Extract

\* main as it is written
Spec == Init /\ [][Next]_vars

\* get_version_directories returns no list but the empty one (it answers a
\* 404 and a page without links with [], and raises on the first link of any
\* other page), so a query never gets past the test of line 410
MainStopsAtEnumerator == pc \notin {"select", "locate", "extract"}

\* the statements of main a query reaches
HeadNext == Parse \/ Resolve \/ Enumerate

HeadSpec == Init /\ [][HeadNext]_vars

-----------------------------------------------------------------------------
(* The rest of main, from line 420 on, with the locator and the extractor: *)
(* run from the state main would be in had get_version_directories         *)
(* returned a list as its docstring describes, tuples (version_name,       *)
(* version_number, release) sorted by version number, descending.          *)

\* names of version directories
VersionDirNames ==
    { <<"0", "1", ".", "0", "7", ".", "0", "1", "_", "6", "0">>,
      <<"0", "1", ".", "0", "6", ".", "0", "2", "_", "3", "0">>,
      <<"0", "2", ".", "0", "1", ".", "0", "1", "_", "1", "0">> }

\* the lists of the docstring with one to MaxLinks entries
TailVersionLists ==
    { SortVersions([i \in 1..Len(ds) |-> VersionTuple(ds[i])]) :
          ds \in SeqsUpTo(VersionDirNames, MaxLinks) \ {<<>>} }

\* the identifiers of QueryInputs that parse
TailInputs == {i \in QueryInputs : parse_spec_number(i) # NoInfo}

\* main at line 420 for an identifier of inputs and a list of lists: the
\* listing fetch raised (the fallback URL was returned) and the directory
\* fetch was answered 200
TailStart(inputs, lists) ==
    /\ argv \in {<<i>> : i \in inputs}
    /\ raw = SpecInput(argv)
    /\ pc = "select"
    /\ spec_info = parse_spec_number(raw)
    /\ rest = RestOf(raw)
    /\ directory_url = get_spec_directory_url(spec_info, Raised).url
    /\ range_suffix = get_spec_directory_url(spec_info, Raised).range_suffix
    /\ version_dirs \in lists
    /\ latest = <<>>
    /\ latest_shown = <<>>
    /\ cand = 1
    /\ pdf_url = <<>>
    /\ artifact = NoPdf
    /\ metadata = NoMetadata
    /\ requests = << LogEntry("GET", base_url(spec_info), Raised),
                     LogEntry("GET", directory_url, Response(200, <<>>)) >>
    /\ page = <<>>
    /\ outcome = "none"
    /\ handler = "none"
    /\ exit_code = -1
    /\ received = <<Raised, Response(200, <<>>)>>
    /\ finished = <<>>

TailInit == TailStart(TailInputs, TailVersionLists)

TailNext == Select \/ Probe \/ Extract

TailSpec == TailInit /\ [][TailNext]_vars

\* main from its first statement, and from line 420 for the lists above
PipelineInit == Init \/ TailInit

PipelineSpec == PipelineInit /\ [][Next]_vars

\* the parser alone, over ParseInputs
ParseInit == Start(ParseInputs)

ParseNext == Parse

ParseSpec == ParseInit /\ [][ParseNext]_vars

-----------------------------------------------------------------------------
(* The invocations of the usage text: an identifier given as one argument  *)
(* (quoted) or as the words the shell splits it into (unquoted).           *)

\* the words of a command line, split at its blanks
RECURSIVE SplitWords(_)
SplitWords(s) ==
    LET sp == {i \in 1..Len(s) : s[i] = " "}
    IN  IF sp = {} THEN <<s>>
        ELSE LET i == CHOOSE j \in sp : \A k \in sp : j <= k
             IN  <<SubSeq(s, 1, i - 1)>> \o SplitWords(SubSeq(s, i + 1, Len(s)))

\* the identifiers of the usage text, with every prefix, number and part of the
\* typed cases: "103224", "103 224", "ETSI TS 103 224", "EG 202 396-3", ...
UsageIdentifiers ==
    TypedInputs
        \cup {p \o n : p \in TypedTriples, n \in TypedTriples}
        \cup {p \o <<" ">> \o n : p \in TypedTriples, n \in TypedTriples}

UsageArgLists ==
    {<<i>> : i \in UsageIdentifiers} \cup {SplitWords(i) : i \in UsageIdentifiers}

CliInit == StartArgs(UsageArgLists)

CliNext == Parse

CliSpec == CliInit /\ [][CliNext]_vars

-----------------------------------------------------------------------------
(* The metadata extractor over many documents: main from line 420 for one  *)
(* identifier and one version, the first probe answered 200, and every     *)
(* document of ScanDocuments as the artifact.                              *)

\* the most lines that precede the title line of a generated first page
MaxLeadLines == 21

SampleQuery == <<"1", "0", "3", "2", "2", "4">>

SampleVersionDir == <<"0", "1", ".", "0", "7", ".", "0", "1", "_", "6", "0">>

OtherTitleText == <<"P", "a", "r", "t", " ", "3", ":", " ", "T", "e", "s", "t", " ", "m", "e", "t", "h", "o", "d", "s", " ", "a", "n", "d">>

\* lines that do not qualify as a title: empty, short, special characters only,
\* and one of exactly twenty characters
LeadLines ==
    { <<>>, <<"E", "T", "S", "I">>, RuleText, [i \in 1..20 |-> "x"] }

RECURSIVE Repeat(_, _)
Repeat(line, k) == IF k = 0 THEN <<>> ELSE <<line>> \o Repeat(line, k - 1)

\* "\n".join(lines)
RECURSIVE JoinLines(_)
JoinLines(lines) ==
    IF lines = <<>> THEN <<>>
    ELSE IF Len(lines) = 1 THEN lines[1]
    ELSE lines[1] \o <<"\n">> \o JoinLines(Tail(lines))

\* what may follow the lead lines: nothing, a title line with blanks around it,
\* or two lines that both qualify
TitleTails ==
    { <<>>,
      << <<" ", " ">> \o TitleText \o <<" ", "\t">> >>,
      << OtherTitleText, TitleText >> }

\* first-page texts: k lead lines of one kind, then one of the tails
ScanTexts ==
    { JoinLines(Repeat(l, k) \o tl) :
          l \in LeadLines, k \in 0..MaxLeadLines, tl \in TitleTails }

\* values of /CreationDate: missing (""), a timestamp as PDF writes it, a
\* bare year, "D:" and seven digits, the digits without "D:", and a timestamp
\* behind other characters
CreationDates ==
    { <<>>,
      CreationStamp,
      <<"2", "0", "2", "5">>,
      <<"D", ":", "2", "0", "2", "5", "1", "1", "2">>,
      <<"2", "0", "2", "5", "1", "1", "2", "0", "0", "9", "3", "0", "0", "0">>,
      <<"(", "D", ":", "1", "9", "9", "9", "0", "1", "3", "1", ")", " ">> \o CreationStamp }

\* readable documents: without metadata, or with metadata whose title is
\* missing (""), over every first-page text; and documents whose metadata
\* has a title
ScanDocuments ==
    { [NoPdf EXCEPT !.parsable = TRUE, !.info = i, !.creation_date = d,
                    !.pages = <<Page(TRUE, tx)>>] :
          i \in BOOLEAN, d \in CreationDates, tx \in ScanTexts }
        \cup { [NoPdf EXCEPT !.parsable = TRUE, !.info = TRUE, !.title = TitleText,
                            !.creation_date = d, !.pages = <<Page(TRUE, tx)>>] :
                    d \in CreationDates, tx \in {JoinLines(<<OtherTitleText>>)} }

ScanResponses == {ArtifactResponse("response", 200, pdf) : pdf \in ScanDocuments}

ExtractInit == TailStart({SampleQuery}, { <<VersionTuple(SampleVersionDir)>> })

ExtractNext ==
    \/ Select
    \/ ProbeFrom({Response(200, <<>>)})
    \/ ExtractFrom(ScanResponses)

ExtractSpec == ExtractInit /\ [][ExtractNext]_vars

-----------------------------------------------------------------------------
(* One query after the other: every query is a run of the script in a      *)
(* process of its own, which starts as the first one does; the script      *)
(* keeps nothing between runs (no file is written, no module-level         *)
(* variable is assigned).                                                  *)

\* most queries run before the one observed
MaxEarlier == 2

SessionInputs ==
    { <<"1", "0", "3", "2", "2", "4">>,
      <<"n", "o", "t", " ", "a", " ", "s", "p", "e", "c">> }

SessionListingResponses(info) ==
    { Raised, Response(200, <<>>), Response(200, <<full_spec(info) \o <<"/">> >>) }

SessionDirectoryResponses ==
    { Raised, Response(404, <<>>), Response(200, <<>>),
      Response(200, <<SampleVersionDir \o <<"/">> >>) }

\* what is known of a query that has ended
QueryRecord == [input |-> raw, received |-> received, requests |-> requests,
                outcome |-> outcome, exit_code |-> exit_code]

\* a variant of NewQueryFrom: the log of requests is kept from run to run
NewQuerySharedLog(inputs) ==
    /\ pc = "done"
    /\ Len(finished) < MaxEarlier
    /\ finished' = Append(finished, QueryRecord)
    /\ argv' \in {<<i>> : i \in inputs}
    /\ raw' = SpecInput(argv')
    /\ pc' = "parse"
    /\ spec_info' = NoInfo
    /\ rest' = <<>>
    /\ directory_url' = <<>>
    /\ range_suffix' = <<>>
    /\ version_dirs' = <<>>
    /\ latest' = <<>>
    /\ latest_shown' = <<>>
    /\ cand' = 1
    /\ pdf_url' = <<>>
    /\ artifact' = NoPdf
    /\ metadata' = NoMetadata
    /\ requests' = requests
    /\ page' = <<>>
    /\ outcome' = "none"
    /\ handler' = "none"
    /\ exit_code' = -1
    /\ received' = <<>>

\* the script is run again, for an identifier of inputs: main starts over
\* in a new process, with nothing left of the run before
NewQueryFrom(inputs) ==
    /\ pc = "done"
    /\ Len(finished) < MaxEarlier
    /\ finished' = Append(finished, QueryRecord)
    /\ argv' \in {<<i>> : i \in inputs}
    /\ raw' = SpecInput(argv')
    /\ pc' = "parse"
    /\ spec_info' = NoInfo
    /\ rest' = <<>>
    /\ directory_url' = <<>>
    /\ range_suffix' = <<>>
    /\ version_dirs' = <<>>
    /\ latest' = <<>>
    /\ latest_shown' = <<>>
    /\ cand' = 1
    /\ pdf_url' = <<>>
    /\ artifact' = NoPdf
    /\ metadata' = NoMetadata
    /\ requests' = <<>>
    /\ page' = <<>>
    /\ outcome' = "none"
    /\ handler' = "none"
    /\ exit_code' = -1
    /\ received' = <<>>

SessionInit == Start(SessionInputs)

SessionNext ==
    \/ Parse
    \/ ResolveFrom(SessionListingResponses(spec_info))
    \/ EnumerateFrom(SessionDirectoryResponses)
    \/ NewQueryFrom(SessionInputs)

SessionSpec == SessionInit /\ [][SessionNext]_vars

-----------------------------------------------------------------------------
(* The identifier through the stages: the parser over ParseInputs, then the *)
(* resolver and the enumerator for a few responses each; and main from line *)
(* 420 on for the identifiers of TailInputs.                                *)

IdentifierInit == Start(ParseInputs) \/ TailInit

IdentifierNext ==
    \/ Parse
    \/ ResolveFrom({Raised, Response(200, <<>>)})
    \/ EnumerateFrom({Raised, Response(404, <<>>), Response(200, <<>>)})
    \/ Select
    \/ ProbeFrom({Response(200, <<>>), Response(404, <<>>)})
    \/ ExtractFrom({ArtifactResponse("response", 200, pdf) : pdf \in PdfContents})

IdentifierSpec == IdentifierInit /\ [][IdentifierNext]_vars

-----------------------------------------------------------------------------
(* format_version over many version numbers: main at lines 420-421 for     *)
(* one identifier and every one-entry list over WideVersionNums.           *)

\* two-digit groups of a version number
VersionGroups ==
    { <<"0", "0">>, <<"0", "1">>, <<"0", "7">>, <<"1", "0">>, <<"1", "1">> }

\* version numbers dd.dd.dd
WideVersionNums ==
    { a \o <<".">> \o b \o <<".">> \o c : a, b, c \in VersionGroups }

\* one-entry lists, release code 60
WideVersionLists == { <<VersionTuple(v \o <<"_", "6", "0">>)>> : v \in WideVersionNums }

FormatInit == TailStart({SampleQuery}, WideVersionLists)

FormatNext == Select

FormatSpec == FormatInit /\ [][FormatNext]_vars

-----------------------------------------------------------------------------
(* The directory resolver over many identifiers and listing pages:         *)
(* identifiers with and without a part whose prefix+number falls into      *)
(* several buckets, and pages with several links that match.               *)

ResolvePrefixes == { <<"0", "0", "0">>, <<"1", "0", "3">> }

ResolveNumbers == { <<"0", "9", "9">>, <<"1", "5", "0">>, <<"9", "0", "0">> }

\* "PPP NNN" and "PPP NNN-K", and one identifier with a document type
ResolveInputs ==
    { p \o <<" ">> \o n \o (IF k = NoPart THEN <<>> ELSE <<"-">> \o k) :
          p \in ResolvePrefixes, n \in ResolveNumbers, k \in {NoPart} \cup Parts }
        \cup { <<"E", "G", " ", "2", "0", "2", " ", "3", "9", "6", "-", "3">> }

\* hrefs of a listing page: two that pass the link test, one that names the
\* specification without "dir", one with "dir" that does not name it
WideListingHrefs(info) ==
    { <<"d", "i", "r", "_">> \o full_spec(info) \o <<"/">>,
      <<"s", "u", "b", "d", "i", "r", "/">> \o full_spec(info) \o <<"/", "/">>,
      full_spec(info) \o <<"/">>,
      <<"d", "i", "r", "s", "/">> }

WideListingResponses(info) ==
    {Raised, Response(404, <<>>), Response(500, <<>>)}
        \cup {Response(200, hs) : hs \in SeqsUpTo(WideListingHrefs(info), MaxLinks)}

ResolveInit == Start(ResolveInputs)

ResolveNext ==
    \/ Parse
    \/ ResolveFrom(WideListingResponses(spec_info))

ResolveSpec == ResolveInit /\ [][ResolveNext]_vars

-----------------------------------------------------------------------------
(* Properties.                                                             *)

EndsWith(s, p) == Len(s) >= Len(p) /\ SubSeq(s, Len(s) - Len(p) + 1, Len(s)) = p

IsHead(r) == r.method = "HEAD"

\* the HEAD probes issued so far, in order
Probes == SelectSeq(requests, IsHead)

Completed(r) == r.kind = "response"

\* the ten range labels, by bucket 0..9
RangeLabels ==
    << <<"0", "0", "_", "0", "9", "9">>,
       <<"1", "0", "0", "_", "1", "9", "9">>,
       <<"2", "0", "0", "_", "2", "9", "9">>,
       <<"3", "0", "0", "_", "3", "9", "9">>,
       <<"4", "0", "0", "_", "4", "9", "9">>,
       <<"5", "0", "0", "_", "5", "9", "9">>,
       <<"6", "0", "0", "_", "6", "9", "9">>,
       <<"7", "0", "0", "_", "7", "9", "9">>,
       <<"8", "0", "0", "_", "8", "9", "9">>,
       <<"9", "0", "0", "_", "9", "9", "9">> >>

\* C1: when the resolver falls back to the range heuristic, the range label is
\* the label of the 100-wide bucket that holds the three-digit number part
\* (number NNN in [k*100, k*100+99] gives the k-th label; 224 gives 200_299).
C1_RangeLabelOfNumber ==
    range_suffix # <<>> =>
        range_suffix = RangeLabels[(ToInt(spec_info.number) \div 100) + 1]

\* the last request is the GET of the located artifact and it returned 200
ArtifactFetched ==
    /\ pdf_url # <<>>
    /\ requests # <<>>
    /\ LET r == requests[Len(requests)]
       IN  r.method = "GET" /\ r.url = pdf_url /\ Completed(r) /\ r.status = 200

\* C2: once the artifact has been fetched with success, whatever the document
\* holds, the query completes with a result and not with an error outcome.
C2_ExtractionNeverFatal ==
    ArtifactFetched => outcome = "Resolved" /\ exit_code = 0

\* the file name a probe asked for
ProbedName(r) == SubSeq(r.url, Len(version_url(directory_url, latest[1])) + 1, Len(r.url))

TypePrefixed(name) == StartsWith(name, Lower(spec_info.doc_type) \o <<"_">>)

WithP(name) == EndsWith(name, <<"p", ".", "p", "d", "f">>)

\* C3: the probes are the candidates in the order type-prefixed with "p",
\* type-prefixed without "p", bare without "p", bare with "p", up to and
\* including the first one answered 200; that candidate's url is returned and
\* nothing is probed after it; four probes completed without success end the
\* query with ArtifactNotFound and no url.
C3_ProbesStopAtFirstSuccess ==
    LET n == Len(Probes)
    IN  /\ n <= 4
        /\ \A i \in 1..n :
              /\ StartsWith(Probes[i].url, version_url(directory_url, latest[1]))
              /\ TypePrefixed(ProbedName(Probes[i])) = (i \in {1, 2})
              /\ WithP(ProbedName(Probes[i])) = (i \in {1, 4})
              /\ EndsWith(Probes[i].url, <<".", "p", "d", "f">>)
        /\ \A i \in 1..(n - 1) : Completed(Probes[i]) /\ Probes[i].status # 200
        /\ (pdf_url # <<>>) =
              (n > 0 /\ Completed(Probes[n]) /\ Probes[n].status = 200)
        /\ pdf_url # <<>> => pdf_url = Probes[n].url /\ pc \in {"extract", "done"}
        /\ (outcome = "ArtifactNotFound") =
              (n = 4 /\ Completed(Probes[n]) /\ Probes[n].status # 200)
        /\ outcome = "ArtifactNotFound" => pdf_url = <<>> /\ pc = "done"
        /\ (pc = "locate") = (outcome = "none" /\ latest # <<>> /\ cand = n + 1
                                /\ pdf_url = <<>>)

\* two candidates answered without success, the third answered 200
C3_Witness ==
    /\ Len(Probes) = 3
    /\ Probes[1].status = 404 /\ Probes[2].status = 500 /\ Probes[3].status = 200
    /\ pdf_url = Probes[3].url
    /\ pc = "extract"

\* the url of the directory of the version named dir
VersionDirUrl(dir) == RStripSlash(directory_url) \o <<"/">> \o dir \o <<"/">>

\* The names of version directories, XX.YY.ZZ_AA or XX.YY.ZZ as the comment
\* above line 236 puts it: the pattern of that line with its first group
\* closed, which the program does not have.

\* whether dd.dd.dd starts at position i of href
VersionAt(h, i) ==
    /\ i + 7 <= Len(h)
    /\ h[i] \in Digits /\ h[i + 1] \in Digits /\ h[i + 2] = "."
    /\ h[i + 3] \in Digits /\ h[i + 4] \in Digits /\ h[i + 5] = "."
    /\ h[i + 6] \in Digits /\ h[i + 7] \in Digits

\* whether the optional group _dd follows the version that starts at i
ReleaseAt(h, i) ==
    /\ i + 10 <= Len(h)
    /\ h[i + 8] = "_" /\ h[i + 9] \in Digits /\ h[i + 10] \in Digits

\* the leftmost match of the closed pattern, with the optional group taken
\* when it is there; NoMatch when there is none
VersionMatch(h) ==
    LET hits == {i \in 1..Len(h) : VersionAt(h, i)}
    IN  IF hits = {} THEN NoMatch
        ELSE LET i == CHOOSE j \in hits : \A k \in hits : j <= k
             IN  IF ReleaseAt(h, i) THEN SubSeq(h, i, i + 10) ELSE SubSeq(h, i, i + 7)

\* the enumerator has run: its GET is the second request of the query
Enumerated == Len(requests) >= 2

\* the version directories a page names, as the specification describes them:
\* hrefs with dd.dd.dd, with or without _dd
HasVersionLink(hrefs) == \E i \in 1..Len(hrefs) : VersionMatch(hrefs[i]) # NoMatch

ListedVersions(hrefs) ==
    {VersionMatch(hrefs[i]) : i \in {k \in 1..Len(hrefs) : VersionMatch(hrefs[k]) # NoMatch}}

\* the directory fetch was answered with success by a page that names a version
DirectoryListsVersions ==
    /\ Enumerated
    /\ Completed(requests[2])
    /\ requests[2].status < 400
    /\ HasVersionLink(page)

\* C4: end to end, a query whose directory page names versions goes on with
\* the first entry of the enumerated list as the latest version, no entry has
\* a greater version number, and every probe and the artifact fetch address
\* the latest version's directory and no other version's, also when all four
\* candidates fail.
C4_LatestVersionOnly ==
    /\ DirectoryListsVersions =>
          /\ version_dirs # <<>>
          /\ outcome \notin {"SpecNotFound", "UnexpectedError"}
    /\ version_dirs = <<>> => Len(requests) <= 2
    /\ latest # <<>> =>
          /\ latest = version_dirs[1]
          /\ \A i \in 1..Len(version_dirs) : ~StrLess(latest[2], version_dirs[i][2])
          /\ \A k \in 3..Len(requests) :
                /\ StartsWith(requests[k].url, VersionDirUrl(latest[1]))
                /\ \A i \in 1..Len(version_dirs) :
                      version_dirs[i][1] # latest[1] =>
                          ~StartsWith(requests[k].url, VersionDirUrl(version_dirs[i][1]))

\* C5: for every directory listing the enumerator returns one entry for each
\* link that names a version, in descending order of version_number, whatever
\* the order of the links on the page.
C5_VersionsDescending ==
    /\ \A i \in 1..(Len(version_dirs) - 1) :
          ~StrLess(version_dirs[i][2], version_dirs[i + 1][2])
    /\ DirectoryListsVersions =>
          {version_dirs[i][1] : i \in 1..Len(version_dirs)} = ListedVersions(page)

C7_ResolveNeverFails ==
    Len(requests) >= 1 =>
        /\ requests[1].method = "GET" /\ requests[1].url = base_url(spec_info)
        /\ StartsWith(directory_url, base_url(spec_info))
        /\ Len(directory_url) > Len(base_url(spec_info))
        /\ Len(requests) = 1 => pc = "enumerate" /\ outcome = "none"

\* the listing fetch raised and the query is at the enumerator with a url
C7_Witness ==
    /\ Len(requests) = 1
    /\ requests[1].kind = "exception"
    /\ pc = "enumerate"
    /\ directory_url # <<>>

\* C8: a six-digit input PPPNNN parses to prefix PPP, number NNN, document
\* type TS and no part.
C8_SixDigits ==
    (pc # "parse" /\ Len(raw) = 6 /\ AllDigits(raw)) =>
        /\ outcome = "none"
        /\ spec_info = [doc_type |-> <<"T", "S">>, prefix |-> SubSeq(raw, 1, 3),
                        number |-> SubSeq(raw, 4, 6), part |-> NoPart]

C8_Witness ==
    /\ raw = <<"1", "0", "9", "0", "0", "1">>
    /\ pc = "resolve"
    /\ spec_info.prefix = <<"1", "0", "9">> /\ spec_info.number = <<"0", "0", "1">>

\* C9: "DT PPP NNN-K" and "DT PPP NNN", for each of the nine codes DT, with or
\* without a leading "ETSI ", in upper or lower case, parse to document type
\* DT, prefix PPP, number NNN and part K (no part without the suffix).
C9_TypedForms ==
    \A c \in TypedCases :
        (pc # "parse" /\ raw = c.input) =>
            /\ outcome = "none"
            /\ spec_info = [doc_type |-> c.doc_type, prefix |-> c.prefix,
                            number |-> c.number, part |-> c.part]

C9_Witness ==
    /\ raw = <<"e", "t", "s", "i", " ", "p", "a", "s", " ", "1", "0", "3", " ", "9", "0", "7", "-", "3", "0">>
    /\ pc = "resolve"
    /\ spec_info = [doc_type |-> <<"P", "A", "S">>, prefix |-> <<"1", "0", "3">>,
                    number |-> <<"9", "0", "7">>, part |-> <<"3", "0">>]

\* the three digit groupings, each as a shape of the start of the text
ThreeSpaceThree(s) ==
    \E w \in 1..Len(s) :
        /\ Len(s) >= 6 + w
        /\ \A i \in 1..3 : s[i] \in Digits
        /\ \A i \in 4..(3 + w) : s[i] \in Whitespace
        /\ \A i \in (4 + w)..(6 + w) : s[i] \in Digits

SixDigits(s) == Len(s) >= 6 /\ \A i \in 1..6 : s[i] \in Digits

TwoSpaceThree(s) ==
    \E w \in 1..Len(s) :
        /\ Len(s) >= 5 + w
        /\ \A i \in 1..2 : s[i] \in Digits
        /\ \A i \in 3..(2 + w) : s[i] \in Whitespace
        /\ \A i \in (3 + w)..(5 + w) : s[i] \in Digits

\* C10: parse fails with InvalidIdentifier exactly when the text left after the
\* document-type token and the part suffix are stripped matches none of the
\* three digit groupings.
C10_InvalidIffNoPattern ==
    pc # "parse" =>
        /\ (outcome = "InvalidIdentifier")
              = ~(ThreeSpaceThree(rest) \/ SixDigits(rest) \/ TwoSpaceThree(rest))
        /\ (outcome = "InvalidIdentifier") = (spec_info = NoInfo)
        /\ outcome \in {"InvalidIdentifier", "none"}

C10_Witness ==
    /\ raw = <<"n", "o", "t", " ", "a", " ", "s", "p", "e", "c">>
    /\ pc = "done"
    /\ outcome = "InvalidIdentifier"

\* C11 (as stated): a query whose directory lists no version ends as
\* SpecNotFound without an except clause of main running, and the process does
\* not end through the failure exit (status 1) that InvalidIdentifier,
\* ArtifactNotFound and TransportError end through.
C11_NoVersionsNotFailureExit ==
    outcome = "SpecNotFound" => (handler = "none" /\ exit_code # 1)

\* C11: a query whose directory yields zero versions (a 404, or a page without
\* a hyperlink) ends as SpecNotFound after the two GETs, with no except clause
\* of main running, which tells it from InvalidIdentifier, ArtifactNotFound,
\* TransportError and UnexpectedError (each ends in an except clause); but it
\* ends through sys.exit(1), the exit status of those failures.
C11_NoVersionsExitsWithoutException ==
    /\ outcome = "SpecNotFound" =>
           /\ handler = "none"
           /\ exit_code = 1
           /\ Len(requests) = 2
           /\ Completed(requests[2])
           /\ version_dirs = <<>>
    /\ outcome \in {"InvalidIdentifier", "ArtifactNotFound", "TransportError",
                    "UnexpectedError"} =>
           (handler # "none" /\ exit_code = 1)
    /\ (Len(requests) = 2 /\ Completed(requests[2])
            /\ (requests[2].status = 404 \/ (requests[2].status < 400 /\ page = <<>>)))
           => outcome = "SpecNotFound"

C11_Witness ==
    /\ outcome = "SpecNotFound"
    /\ requests[2].status = 200
    /\ exit_code = 1

\* the query ran through the extractor and the artifact had no structured title
ScannedForTitle ==
    /\ outcome = "Resolved"
    /\ artifact.parsable
    /\ (~artifact.info \/ artifact.title = <<>>)
    /\ artifact.pages # <<>>

\* the lines of the first page's text, trimmed, in page order
FirstPageLines ==
    LET ls == SplitLines(artifact.pages[1].text)
    IN  [i \in 1..Len(ls) |-> Strip(ls[i])]

\* longer than 20 characters and not made of non-word, non-space characters only
TitleLike(line) ==
    /\ Len(line) > 20
    /\ \E i \in 1..Len(line) : line[i] \in WordChars \cup Whitespace

\* the positions, among the first 20 lines, of the lines that qualify
TitlePositions ==
    {i \in 1..Len(FirstPageLines) : i <= 20 /\ TitleLike(FirstPageLines[i])}

\* C12: when the artifact has no structured title (no metadata, or an empty
\* title), the title is the first of the first 20 lines of the first page that,
\* trimmed, is longer than 20 characters and not only special characters; when
\* none of the first 20 lines qualifies the title stays unset (missing or
\* empty), whatever line 21 and the lines after it hold.
C12_TitleFromFirstTwentyLines ==
    ScannedForTitle =>
        IF TitlePositions = {}
        THEN metadata.title = (IF artifact.info THEN <<>> ELSE Unset)
        ELSE \E i \in TitlePositions :
                /\ \A j \in TitlePositions : i <= j
                /\ metadata.title = FirstPageLines[i]

\* a line that qualifies stands at position 21 and none before it: the title
\* stays unset
C12_Witness ==
    /\ ScannedForTitle
    /\ TitlePositions = {}
    /\ Len(FirstPageLines) >= 21
    /\ TitleLike(FirstPageLines[21])
    /\ ~Truthy(metadata.title)

\* a two-digit group written without its leading zero
Plain(g) == IF g[1] = "0" THEN <<g[2]>> ELSE g

\* C13: the version number AA.BB.CC of the latest entry is shown as V<a>.<b>.<c>,
\* each group without its leading zero, and no other version number is
\* formatted to the string shown.
C13_FormatVersion ==
    latest # <<>> =>
        /\ LET a == SubSeq(latest[2], 1, 2)
               b == SubSeq(latest[2], 4, 5)
               c == SubSeq(latest[2], 7, 8)
           IN  /\ latest[2] = a \o <<".">> \o b \o <<".">> \o c
               /\ latest_shown = <<"V">> \o Plain(a) \o <<".">> \o Plain(b)
                                     \o <<".">> \o Plain(c)
        /\ \A v \in WideVersionNums :
              format_version(v) = latest_shown => v = latest[2]

\* 01.07.01 is shown as V1.7.1
C13_Witness ==
    /\ latest # <<>>
    /\ latest[2] = <<"0", "1", ".", "0", "7", ".", "0", "1">>
    /\ latest_shown = <<"V", "1", ".", "7", ".", "1">>

\* the arguments of the invocation, joined by single blanks: the identifier as
\* the usage text shows it
RECURSIVE JoinWords(_)
JoinWords(args) ==
    IF Len(args) = 1 THEN args[1]
    ELSE args[1] \o <<" ">> \o JoinWords(Tail(args))

\* C14 (as stated): every invocation the usage text shows resolves the
\* identifier it shows, also when the identifier is written as several
\* arguments: "103 224" parses as TS 103 224, like "103224", and
\* "ETSI TS 103 224" parses as TS 103 224.
C14_UsageInvocationsParse ==
    pc # "parse" =>
        /\ \A p, n \in TypedTriples :
              JoinWords(argv) \in {p \o n, p \o <<" ">> \o n} =>
                  /\ outcome = "none"
                  /\ spec_info = [doc_type |-> <<"T", "S">>, prefix |-> p,
                                  number |-> n, part |-> NoPart]
        /\ \A c \in TypedCases :
              JoinWords(argv) = c.input =>
                  /\ outcome = "none"
                  /\ spec_info = [doc_type |-> c.doc_type, prefix |-> c.prefix,
                                  number |-> c.number, part |-> c.part]

\* the k-th remote request failed: it raised (timeout, connection failure), or
\* it is a GET answered with an error status, the 404 of the directory fetch
\* aside (the enumerator's empty result)
RequestFailed(k) ==
    \/ requests[k].kind = "exception"
    \/ /\ requests[k].method = "GET"
       /\ requests[k].status >= 400
       /\ ~(k = 2 /\ requests[k].status = 404)

RaisedProbes ==
    {k \in 1..Len(requests) : requests[k].method = "HEAD" /\ requests[k].kind = "exception"}

\* C16: an existence probe that raises (timeout, connection failure) is the
\* last remote request of the query: no further candidate is probed, no
\* artifact is located, and the query ends with TransportError through the
\* RequestException clause, never with ArtifactNotFound.
C16_ProbeFailureIsTransportError ==
    \A k \in RaisedProbes :
        /\ k = Len(requests)
        /\ pc = "done"
        /\ outcome = "TransportError"
        /\ handler = "RequestException"
        /\ pdf_url = <<>>

\* the second candidate's probe raised after the first was answered 404, and
\* two candidates were left untried
C16_Witness ==
    /\ Len(requests) = 4
    /\ requests[3].method = "HEAD" /\ requests[3].status = 404
    /\ requests[4].method = "HEAD" /\ requests[4].kind = "exception"
    /\ cand = 2
    /\ outcome = "TransportError"

\* the k-th request of the log is the one its stage issues: the resolver's GET
\* of the listing, the enumerator's GET of the directory, the locator's HEAD
\* probes (at most four, each after a probe that did not succeed), and the
\* extractor's GET of the artifact right after the probe that succeeded
IssuedInStageOrder(k) ==
    LET r == requests[k]
    IN  IF k = 1 THEN r.method = "GET" /\ r.url = base_url(spec_info)
        ELSE IF k = 2 THEN r.method = "GET" /\ r.url = directory_url
        ELSE IF r.method = "HEAD"
        THEN /\ k <= 6
             /\ k > 3 => /\ requests[k - 1].method = "HEAD"
                         /\ Completed(requests[k - 1])
                         /\ requests[k - 1].status # 200
        ELSE /\ r.method = "GET"
             /\ k = Len(requests)
             /\ requests[k - 1].method = "HEAD"
             /\ requests[k - 1].status = 200
             /\ r.url = requests[k - 1].url

\* the stage that issued the k-th request completed without ending the query
StageWentOn(k) ==
    IF k = 1 THEN TRUE
    ELSE IF k = 2
    THEN Completed(requests[2]) /\ requests[2].status < 400 /\ version_dirs # <<>>
    ELSE requests[k].method = "HEAD" /\ Completed(requests[k])

\* C17: the remote requests are issued in the order of the stages, each only
\* after the stage before it completed without ending the query; a stage that
\* has not been reached has issued nothing; and once the query has ended
\* (invalid identifier, zero versions, artifact not found, transport error, or
\* a result) no step is left to take, so no later stage issues a request.
C17_StagesInOrder ==
    /\ \A k \in 1..Len(requests) :
          /\ IssuedInStageOrder(k)
          /\ k < Len(requests) => StageWentOn(k)
    /\ Len(requests) > 0 => spec_info # NoInfo
    /\ pc \in {"parse", "resolve"} => requests = <<>>
    /\ pc = "enumerate" => Len(requests) = 1
    /\ pc = "select" => Len(requests) = 2 /\ version_dirs # <<>>
    /\ pc = "locate" => Len(requests) = 1 + cand
    /\ pc = "extract" => requests[Len(requests)].method = "HEAD"
    /\ outcome # "none" => (pc = "done" /\ ~ENABLED Next)
    /\ outcome = "InvalidIdentifier" => requests = <<>>
    /\ outcome = "SpecNotFound" => Len(requests) = 2
    /\ outcome = "ArtifactNotFound" =>
           (Len(requests) = 6 /\ requests[6].method = "HEAD")

\* all five stages ran, in order: two GETs, two probes, the GET of the artifact
C17_Witness ==
    /\ outcome = "Resolved"
    /\ Len(requests) = 5
    /\ requests[3].method = "HEAD" /\ requests[3].status = 404
    /\ requests[4].method = "HEAD" /\ requests[4].status = 200
    /\ requests[5].method = "GET" /\ requests[5].url = pdf_url

\* no two requests of the log have the same method and URL
NoRequestRepeated ==
    \A j, k \in 1..Len(requests) :
        (requests[j].method = requests[k].method /\ requests[j].url = requests[k].url)
            => j = k

\* at most one listing GET, one directory GET, four HEAD probes, one artifact GET
AtMostSevenRequests ==
    /\ Len(requests) <= 7
    /\ Len(Probes) <= 4
    /\ Len(requests) - Len(Probes) <= 3

\* how far the query has come: 0 before the parse, 9 when it has ended
Progress ==
    IF pc = "parse" THEN 0
    ELSE IF pc = "resolve" THEN 1
    ELSE IF pc = "enumerate" THEN 2
    ELSE IF pc = "select" THEN 3
    ELSE IF pc = "locate" THEN 3 + cand
    ELSE IF pc = "extract" THEN 8
    ELSE 9

\* C18: within one query no remote request (same method and URL) is issued
\* twice, whatever its outcome; a query issues at most seven requests (one
\* listing GET, one directory GET, at most four HEAD probes, one artifact
\* GET); and every query ends: each step brings it further on a way of at
\* most nine steps.
C18_NoRetryAndTermination ==
    /\ [](NoRequestRepeated /\ AtMostSevenRequests /\ Progress \in 0..9)
    /\ [][Progress' > Progress]_vars

\* seven requests: every stage ran and the fourth probe succeeded
C18_Witness ==
    /\ Len(requests) = 7
    /\ Len(Probes) = 4
    /\ requests[6].status = 200
    /\ requests[7].method = "GET"
    /\ pc = "done"

\* the directory resolver has just returned
JustResolved == Len(requests) = 1 /\ pc = "enumerate"

\* prefix+number, followed by -part when the identifier has a part
SpecSegment ==
    spec_info.prefix \o spec_info.number
        \o (IF spec_info.part = NoPart THEN <<>> ELSE <<"-">> \o spec_info.part)

\* the positions on the listing page of the links whose target contains
\* prefix+number(+part) and the letters "dir"
MatchingLinks ==
    {i \in 1..Len(page) :
        Contains(page[i], SpecSegment) /\ Contains(page[i], <<"d", "i", "r">>)}

FellBack == JustResolved /\ range_suffix # <<>>

\* C20: in the fallback the range label is the one the identifier gets without
\* its part, and with any other part; the trailing path segment is
\* prefix+number, followed by -part when there is a part; and the URL is the
\* listing URL + prefix + range label + "/" + that segment + "/".
C20_PartNotInBucket ==
    FellBack =>
        /\ \A k \in {NoPart} \cup Parts :
              get_spec_directory_url([spec_info EXCEPT !.part = k], Raised).range_suffix
                  = range_suffix
        /\ directory_url = DeliverEtsi \o Lower(spec_info.doc_type) \o <<"/">>
                               \o spec_info.prefix \o range_suffix \o <<"/">>
                               \o spec_info.prefix \o spec_info.number
                               \o (IF spec_info.part = NoPart THEN <<>>
                                   ELSE <<"-">> \o spec_info.part)
                               \o <<"/">>

\* 000 150-3 falls into the bucket of 000 150
C20_Witness ==
    /\ FellBack
    /\ spec_info.prefix = <<"0", "0", "0">>
    /\ spec_info.number = <<"1", "5", "0">>
    /\ spec_info.part = <<"3">>
    /\ range_suffix = <<"1", "0", "0", "_", "1", "9", "9">>
    /\ EndsWith(directory_url, <<"/", "0", "0", "0", "1", "5", "0", "-", "3", "/">>)


-----------------------------------------------------------------------------
\* (major, minor, patch) of a version number dd.dd.dd, as integers
VersionTriple(v) ==
    LET parts == SplitDots(v)
    IN  <<ToInt(parts[1]), ToInt(parts[2]), ToInt(parts[3])>>

\* numeric comparison of the triples
TripleLess(a, b) ==
    \/ a[1] < b[1]
    \/ a[1] = b[1] /\ a[2] < b[2]
    \/ a[1] = b[1] /\ a[2] = b[2] /\ a[3] < b[3]

\* the comparison of strings agrees with the numeric comparison on dd.dd.dd
StringOrderIsNumericOrder ==
    \A a, b \in WideVersionNums :
        StrLess(a, b) = TripleLess(VersionTriple(a), VersionTriple(b))

\* C21: on version numbers dd.dd.dd the comparison of strings agrees with the
\* numeric comparison of (major, minor, patch), and so for a directory page
\* that names versions the first entry of the enumerator's result has a
\* numerically greatest version of the page.
C21_FirstEntryNumericallyGreatest ==
    /\ StringOrderIsNumericOrder
    /\ DirectoryListsVersions =>
          /\ version_dirs # <<>>
          /\ \A v \in ListedVersions(page) :
                ~TripleLess(VersionTriple(LatestEntry(version_dirs)[2]),
                            VersionTriple(VersionTuple(v)[2]))


-----------------------------------------------------------------------------
\* the parser has run
Parsed == pc # "parse"

\* the heads of the remaining text
Heads(s) == {SubSeq(s, 1, k) : k \in 0..Len(s)}

\* texts that may follow the digit groups
TrailingTexts == { <<"5">>, <<" ">>, <<"x">>, <<"-">>, <<"5", "6">>, <<" ", "7", "8", "9">> }

\* the length of the text the groups of a successful parse cover: the prefix,
\* the whitespace behind it, three digits
MatchedLength == Len(spec_info.prefix) + WsRun(rest, Len(spec_info.prefix) + 1) + 3

\* C25: the digit patterns are anchored at the start of the remaining text
\* only: when a head of the remaining text matches, the parse succeeds with
\* the groups of that head, prefix = the first group and number = the next
\* three digits, whatever follows them; so "1032245" and "103 2245" parse to
\* prefix 103, number 224.
C25_TrailingCharactersIgnored ==
    Parsed =>
        /\ \A h \in Heads(rest) :
              DigitGroups(h) # NoMatch =>
                  /\ spec_info # NoInfo
                  /\ DigitGroups(h) = <<spec_info.prefix, spec_info.number>>
        /\ spec_info # NoInfo =>
              /\ MatchedLength <= Len(rest)
              /\ spec_info.prefix = SubSeq(rest, 1, Len(spec_info.prefix))
              /\ spec_info.number = SubSeq(rest, MatchedLength - 2, MatchedLength)
              /\ \A t \in TrailingTexts :
                    DigitGroups(rest \o t) = <<spec_info.prefix, spec_info.number>>
        /\ raw \in { <<"1", "0", "3", "2", "2", "4", "5">>,
                     <<"1", "0", "3", " ", "2", "2", "4", "5">> } =>
              /\ spec_info.prefix = <<"1", "0", "3">>
              /\ spec_info.number = <<"2", "2", "4">>

\* "103 2245" was parsed: a character follows the matched groups
C25_Witness ==
    /\ Parsed
    /\ raw = <<"1", "0", "3", " ", "2", "2", "4", "5">>
    /\ spec_info.prefix = <<"1", "0", "3">>
    /\ spec_info.number = <<"2", "2", "4">>
    /\ MatchedLength < Len(rest)


-----------------------------------------------------------------------------
\* the creation timestamp the artifact's metadata holds; empty when the
\* artifact has no metadata or no such entry
CreationTimestamp == IF artifact.info THEN artifact.creation_date ELSE <<>>

\* the positions of the timestamp where "D:" and eight digits stand
StampPositions ==
    {i \in 1..(Len(CreationTimestamp) - 9) :
        /\ SubSeq(CreationTimestamp, i, i + 1) = <<"D", ":">>
        /\ \A k \in (i + 2)..(i + 9) : CreationTimestamp[k] \in Digits}

\* YYYY-MM-DD of the eight digits behind the "D:" at position i
DashedDate(i) ==
    [k \in 1..10 |-> IF k \in {5, 8} THEN "-"
                     ELSE CreationTimestamp[i + 1 + k - (IF k > 8 THEN 2 ELSE IF k > 5 THEN 1 ELSE 0)]]

\* the title of the result was found on the first page
TitleFromScan ==
    /\ ~artifact.info \/ artifact.title = <<>>
    /\ metadata.title \notin {Unset, <<>>}

\* C24: in a result, publication_date is set exactly when the creation
\* timestamp of the artifact's metadata holds "D:" followed by eight digits,
\* and it is then YYYY-MM-DD of the digits of the first such place; without a
\* timestamp, or with one that does not match, it is unset, whether the title
\* came from the metadata or from the scan of the first page.
C24_PublicationDateIffStamp ==
    outcome = "Resolved" =>
        /\ (metadata.publication_date # Unset) = (StampPositions # {})
        /\ StampPositions # {} =>
              \E i \in StampPositions :
                  /\ \A j \in StampPositions : i <= j
                  /\ metadata.publication_date = DashedDate(i)
        /\ CreationTimestamp = <<>> => metadata.publication_date = Unset

\* title from the scan, and the date of the timestamp D:20251120093000
C24_Witness ==
    /\ outcome = "Resolved"
    /\ TitleFromScan
    /\ artifact.creation_date = CreationStamp
    /\ metadata.publication_date = <<"2", "0", "2", "5", "-", "1", "1", "-", "2", "0">>


-----------------------------------------------------------------------------
\* the input, trimmed and in upper case, begins with one of the nine codes,
\* bare or behind "ETSI "
NamesDocType(input) ==
    \E i \in 1..Len(doc_types) :
        \/ StartsWith(Strip(Upper(input)), doc_types[i])
        \/ StartsWith(Strip(Upper(input)), ETSI_ \o doc_types[i])

DigitString(s) == \A i \in 1..Len(s) : s[i] \in Digits

\* the fields of an identifier as the parser's contract describes them
IdentifierShape(info) ==
    /\ \E i \in 1..Len(doc_types) : info.doc_type = doc_types[i]
    /\ Len(info.prefix) \in {2, 3} /\ DigitString(info.prefix)
    /\ Len(info.number) = 3 /\ DigitString(info.number)
    /\ info.part = NoPart \/ (Len(info.part) > 0 /\ DigitString(info.part))

\* C22: the identifier of a successful parse has one of the nine codes as its
\* document type (TS when the input names none), a prefix of two or three
\* digits, a number of three digits and a part that is absent or a non-empty
\* string of digits; and no step after the parse (resolver, enumerator,
\* locator, extractor) changes the identifier.
C22_IdentifierShapeAndImmutable ==
    /\ [](spec_info # NoInfo =>
            /\ IdentifierShape(spec_info)
            /\ ~NamesDocType(raw) => spec_info.doc_type = <<"T", "S">>)
    /\ [][pc # "parse" => spec_info' = spec_info]_vars

\* "EG 202 396-3" after the resolver, the enumerator and the locator have run
C22_Witness ==
    /\ Len(Probes) = 4
    /\ outcome = "ArtifactNotFound"
    /\ spec_info = [doc_type |-> <<"E", "G">>, prefix |-> <<"2", "0", "2">>,
                    number |-> <<"3", "9", "6">>, part |-> <<"3">>]


-----------------------------------------------------------------------------
\* s is the beginning of t
IsPrefixOf(s, t) == Len(s) <= Len(t) /\ SubSeq(t, 1, Len(s)) = s

\* what the running query and an earlier one have in common makes them go the
\* same way: after the same responses to the same input the same requests
\* have been issued, and the same end has been reached
GoesAs(f) ==
    (f.input = raw /\ IsPrefixOf(received, f.received)) =>
        /\ IsPrefixOf(requests, f.requests)
        /\ Len(requests) = Len(received)
        /\ received = f.received =>
              /\ requests = f.requests
              /\ pc = "done" => (outcome = f.outcome /\ exit_code = f.exit_code)

====
